---- MODULE Spec2Model ----
(***************************************************************************)
(* LemLib virtual file system (src/src/vfs.cpp).                           *)
(*                                                                         *)
(* A std::string is a sequence of one-character strings.  The index file   *)
(* "/usd/index.txt" is the sequence of its lines.  The other files of the  *)
(* backing store are a function from file name to content; a name outside  *)
(* its domain is a file that does not exist.  Every operation re-reads the *)
(* index file, so the operators below take the file's lines and parse      *)
(* them with readFileIndex, as the code does.                              *)
(*                                                                         *)
(* procs and raced belong to the calls that run interleaved, main to the   *)
(* variant of the file system in src/src/main.cpp; each is described where *)
(* it is used.                                                             *)
(***************************************************************************)
EXTENDS Integers, Sequences, FiniteSets, TLC

VARIABLES indexFile, files, last, live, procs, raced, main

vars == <<indexFile, files, last, live, procs, raced, main>>

(***************************************************************************)
(* Bounds of the model.                                                    *)
(***************************************************************************)
\* createFile is called only while the index holds fewer lines than this
\* (or on a path the index already holds).
MaxFiles == 3

\* the number of calls that the processes running interleaved make in all
MaxCalls == 3

\* the longest vector of entries that is written to the index file and read
\* back
MaxEntries == 2

(***************************************************************************)
(* Strings.                                                                *)
(***************************************************************************)
npos == -1

Digits == <<"0", "1", "2", "3", "4", "5", "6", "7", "8", "9">>

\* std::to_string(int) for a non-negative int
RECURSIVE to_string(_)
to_string(n) ==
    IF n < 10 THEN <<Digits[n + 1]>>
    ELSE to_string(n \div 10) \o <<Digits[(n % 10) + 1]>>

\* std::string::substr(pos): the characters from 0-based position pos on
substr_from(s, pos) == SubSeq(s, pos + 1, Len(s))

\* std::string::substr(pos, n): at most n characters from position pos
substr(s, pos, n) ==
    SubSeq(s, pos + 1, IF pos + n > Len(s) THEN Len(s) ELSE pos + n)

\* std::string::find(t): the 0-based position of the first occurrence of t
find(s, t) ==
    LET hits == { p \in 0..(Len(s) - Len(t)) : SubSeq(s, p + 1, p + Len(t)) = t }
    IN  IF hits = {} THEN npos
        ELSE CHOOSE p \in hits : \A q \in hits : p <= q

\* std::string::find_last_of("/"): the 0-based position of the last "/",
\* searched backwards from position pos
RECURSIVE find_last_of_slash_from(_, _)
find_last_of_slash_from(s, pos) ==
    IF pos < 0 THEN npos
    ELSE IF s[pos + 1] = "/" THEN pos
    ELSE find_last_of_slash_from(s, pos - 1)

find_last_of_slash(s) == find_last_of_slash_from(s, Len(s) - 1)

\* corrected that leaves every path as it is
corrected_asGiven(path) == path

\* (path.front() == '/') ? path : ('/' + path)
corrected(path) == IF Head(path) = "/" THEN path ELSE <<"/">> \o path

(***************************************************************************)
(* The index.                                                              *)
(***************************************************************************)
lemlibFile(name_, sector_) == [name |-> name_, sector |-> sector_]

\* parseLine with the line split at its first "/" instead of its last
parseLine_firstSlash(line) ==
    LET slash_pos == find(line, <<"/">>)
    IN  IF slash_pos = npos THEN lemlibFile(line, line)
        ELSE lemlibFile(substr(line, 0, slash_pos), substr_from(line, slash_pos + 1))

\* parseLine with the "/" of the split left at the end of the name
parseLine_keepSlash(line) ==
    LET last_slash_pos == find_last_of_slash(line)
    IN  IF last_slash_pos = npos THEN lemlibFile(line, line)
        ELSE lemlibFile(substr(line, 0, last_slash_pos + 1),
                        substr_from(line, last_slash_pos + 1))

\* one iteration of readFileIndex's loop.  With no "/" in the line
\* last_slash_pos is npos: substr(0, npos) and substr(npos + 1) are both the
\* whole line.
parseLine(line) ==
    LET last_slash_pos == find_last_of_slash(line)
    IN  IF last_slash_pos = npos THEN lemlibFile(line, line)
        ELSE lemlibFile(substr(line, 0, last_slash_pos),
                        substr_from(line, last_slash_pos + 1))

readFileIndex(file) == [i \in 1..Len(file) |-> parseLine(file[i])]

\* indexLine without the "/" between the name and the sector
indexLine_noSeparator(name, sector) == name \o sector

\* indexFile << line.name << "/" << line.sector << std::endl
indexLine(name, sector) == name \o <<"/">> \o sector

\* appendLine through a stream that writes at the start of the file
appendLine_atStart(file, line) == <<line>> \o file

\* a write through a stream opened with std::ios_base::app: the line goes
\* to the end of the file as it is at the time of the write
appendLine(file, line) == Append(file, line)

\* writeIndex with the entries written last to first
writeIndex_reversed(index) ==
    [i \in 1..Len(index) |->
        indexLine(index[Len(index) + 1 - i].name, index[Len(index) + 1 - i].sector)]

\* std::ofstream indexFile("/usd/index.txt") and the loop that writes the
\* entries
writeIndex(index) == [i \in 1..Len(index) |-> indexLine(index[i].name, index[i].sector)]

\* fileExists with the path compared to the sector of the entries instead of
\* their name
fileExists_sectorField(file, path) ==
    LET corrected_path == corrected(path)
        index == readFileIndex(file)
    IN  \E i \in 1..Len(index) : index[i].sector = corrected_path

fileExists(file, path) ==
    LET corrected_path == corrected(path)
        index == readFileIndex(file)
    IN  \E i \in 1..Len(index) : index[i].name = corrected_path

\* getFileSector that returns the name of the entry it finds
getFileSector_name(file, path) ==
    LET corrected_path == corrected(path)
        index == readFileIndex(file)
        hits == { i \in 1..Len(index) : index[i].name = corrected_path }
    IN  IF hits = {} THEN <<>>
        ELSE index[CHOOSE i \in hits : \A j \in hits : i <= j].name

getFileSector(file, path) ==
    LET corrected_path == corrected(path)
        index == readFileIndex(file)
        hits == { i \in 1..Len(index) : index[i].name = corrected_path }
    IN  IF hits = {} THEN <<>>
        ELSE index[CHOOSE i \in hits : \A j \in hits : i <= j].sector

\* remove_if with a predicate that matches every entry
remove_if_all(index, corrected_path) == <<>>

\* remove_if with a predicate that matches no entry
remove_if_none(index, corrected_path) == index

\* std::remove_if + erase: the entries whose name is not corrected_path, in
\* their order
RECURSIVE remove_if(_, _)
remove_if(index, corrected_path) ==
    IF index = <<>> THEN <<>>
    ELSE IF Head(index).name = corrected_path
         THEN remove_if(Tail(index), corrected_path)
         ELSE <<Head(index)>> \o remove_if(Tail(index), corrected_path)

\* firstEmptySector as the number of entries of the index
firstEmptySector_count(index, sector) == sector + Len(index)

\* "Find the first empty sector": one pass over the index in file order
RECURSIVE firstEmptySector(_, _)
firstEmptySector(index, sector) ==
    IF index = <<>> THEN sector
    ELSE firstEmptySector(Tail(index),
             IF Head(index).sector = to_string(sector) THEN sector + 1 ELSE sector)

(***************************************************************************)
(* Backing-store files.                                                    *)
(***************************************************************************)
\* std::ofstream f(name): creates the file or truncates it to empty; the
\* open fails on an empty name or when the store refuses it
openTrunc(fs, name, ok) ==
    IF ok /\ name # <<>>
    THEN [n \in (DOMAIN fs) \cup {name} |-> IF n = name THEN <<>> ELSE fs[n]]
    ELSE fs

\* the name createFile opens for a sector: "/usd" + std::to_string(sector)
usd == <<"/", "u", "s", "d">>

sectorFileName(sector) == usd \o to_string(sector)

IndexPath == <<"/", "u", "s", "d", "/", "i", "n", "d", "e", "x", ".", "t", "x", "t">>

NoError == [kind |-> "none", arg |-> <<>>]
CANNOT_OPEN_FILE(filename) == [kind |-> "CANNOT_OPEN_FILE", arg |-> filename]
FILE_NOT_FOUND(filename) == [kind |-> "FILE_NOT_FOUND", arg |-> filename]
FILE_ALREADY_EXISTS(filename) == [kind |-> "FILE_ALREADY_EXISTS", arg |-> filename]
VFS_INIT_FAILED == [kind |-> "VFS_INIT_FAILED", arg |-> <<>>]

(***************************************************************************)
(* deleteFile and createFile as functions of the store.  indexOk: the      *)
(* opens of the index file succeed during the call; sectorOk: the opens of *)
(* sector files do.                                                        *)
(***************************************************************************)
\* deleteFile without the fileExists check
deleteFile_noCheck(file, fs, path, indexOk, sectorOk) ==
    LET corrected_path == corrected(path)
    IN  IF ~indexOk
        THEN [err |-> CANNOT_OPEN_FILE(IndexPath), index |-> file, files |-> fs]
        ELSE LET index == remove_if(readFileIndex(file), corrected_path)
             IN  [err   |-> NoError,
                  index |-> writeIndex(index),
                  files |-> openTrunc(fs, getFileSector(file, corrected_path), sectorOk)]

deleteFile(file, fs, path, indexOk, sectorOk) ==
    LET corrected_path == corrected(path)
    IN  IF ~indexOk
        THEN [err |-> CANNOT_OPEN_FILE(IndexPath), index |-> file, files |-> fs]
        ELSE IF ~fileExists(file, corrected_path)
        THEN [err |-> FILE_NOT_FOUND(corrected_path), index |-> file, files |-> fs]
        ELSE LET index == remove_if(readFileIndex(file), corrected_path)
             IN  [err   |-> NoError,
                  index |-> writeIndex(index),
                  files |-> openTrunc(fs, getFileSector(file, corrected_path), sectorOk)]

\* createFile that writes the index line only once the sector file exists
createFile_sectorFirst(file, fs, path, overwrite, indexOk, sectorOk) ==
    LET corrected_path == corrected(path)
        exists == fileExists(file, corrected_path)
    IN  IF ~indexOk
        THEN [err |-> CANNOT_OPEN_FILE(IndexPath), ret |-> <<>>, found |-> FALSE,
              index |-> file, files |-> fs]
        ELSE IF exists /\ ~overwrite
        THEN [err |-> FILE_ALREADY_EXISTS(corrected_path), ret |-> <<>>, found |-> TRUE,
              index |-> file, files |-> fs]
        ELSE LET d == IF exists
                      THEN deleteFile(file, fs, corrected_path, indexOk, sectorOk)
                      ELSE [err |-> NoError, index |-> file, files |-> fs]
                 sector == firstEmptySector(readFileIndex(d.index), 0)
             IN  IF ~sectorOk
                 THEN [err |-> CANNOT_OPEN_FILE(sectorFileName(sector)), ret |-> <<>>,
                       found |-> exists, index |-> d.index, files |-> d.files]
                 ELSE [err |-> NoError, ret |-> to_string(sector), found |-> exists,
                       index |-> appendLine(d.index, indexLine(corrected_path, to_string(sector))),
                       files |-> openTrunc(d.files, sectorFileName(sector), TRUE)]

createFile(file, fs, path, overwrite, indexOk, sectorOk) ==
    LET corrected_path == corrected(path)
        exists == fileExists(file, corrected_path)
    IN  IF ~indexOk
        THEN [err |-> CANNOT_OPEN_FILE(IndexPath), ret |-> <<>>, found |-> FALSE,
              index |-> file, files |-> fs]
        ELSE IF exists /\ ~overwrite
        THEN [err |-> FILE_ALREADY_EXISTS(corrected_path), ret |-> <<>>, found |-> TRUE,
              index |-> file, files |-> fs]
        ELSE LET d == IF exists
                      THEN deleteFile(file, fs, corrected_path, indexOk, sectorOk)
                      ELSE [err |-> NoError, index |-> file, files |-> fs]
                 sector == firstEmptySector(readFileIndex(d.index), 0)
                 appended == appendLine(d.index, indexLine(corrected_path, to_string(sector)))
             IN  IF ~sectorOk
                 THEN [err |-> CANNOT_OPEN_FILE(sectorFileName(sector)), ret |-> <<>>,
                       found |-> exists, index |-> appended, files |-> d.files]
                 ELSE [err |-> NoError, ret |-> to_string(sector),
                       found |-> exists, index |-> appended,
                       files |-> openTrunc(d.files, sectorFileName(sector), TRUE)]

\* listLoop that adds every name it produces
RECURSIVE listLoop_noDedup(_, _, _, _)
listLoop_noDedup(index, corrected_dir, recursive, acc) ==
    IF index = <<>> THEN acc
    ELSE LET line == Head(index)
             stripped == substr_from(line.name, Len(corrected_dir))
             name == IF find(stripped, <<"/">>) # npos /\ ~recursive
                     THEN substr(stripped, 0, find(stripped, <<"/">>) + 1)
                     ELSE stripped
         IN  IF find(line.name, corrected_dir) # 0
             THEN listLoop_noDedup(Tail(index), corrected_dir, recursive, acc)
             ELSE listLoop_noDedup(Tail(index), corrected_dir, recursive, Append(acc, name))

\* listDirectory's loop over the entries; acc is the vector files
RECURSIVE listLoop(_, _, _, _)
listLoop(index, corrected_dir, recursive, acc) ==
    IF index = <<>> THEN acc
    ELSE LET line == Head(index)
             stripped == substr_from(line.name, Len(corrected_dir))
             name == IF find(stripped, <<"/">>) # npos /\ ~recursive
                     THEN substr(stripped, 0, find(stripped, <<"/">>) + 1)
                     ELSE stripped
         IN  IF find(line.name, corrected_dir) # 0
             THEN listLoop(Tail(index), corrected_dir, recursive, acc)
             ELSE listLoop(Tail(index), corrected_dir, recursive,
                      IF \E i \in 1..Len(acc) : acc[i] = name THEN acc
                      ELSE Append(acc, name))

listDirectory(file, dir, recursive) ==
    listLoop(readFileIndex(file), corrected(dir), recursive, <<>>)

(***************************************************************************)
(* The variant of src/src/main.cpp.  Its index file is "index.txt" and its *)
(* exceptions are empty structs.  The operators take the lines of its      *)
(* index file and its other files.                                         *)
(***************************************************************************)
main_NoError == [kind |-> "none", arg |-> <<>>]
main_CANNOT_OPEN_FILE == [kind |-> "CANNOT_OPEN_FILE", arg |-> <<>>]
main_FILE_NOT_FOUND == [kind |-> "FILE_NOT_FOUND", arg |-> <<>>]
main_FILE_ALREADY_EXISTS == [kind |-> "FILE_ALREADY_EXISTS", arg |-> <<>>]

\* if (filePath.find("/") != 0) filePath = "/" + filePath
main_corrected(path) == IF find(path, <<"/">>) # 0 THEN <<"/">> \o path ELSE path

main_readFileIndex(file) ==
    [i \in 1..Len(file) |->
        LET line == file[i]
            pos == find_last_of_slash(line)
        IN  IF pos = npos THEN lemlibFile(line, line)
            ELSE lemlibFile(substr(line, 0, pos), substr_from(line, pos + 1))]

main_fileExists(file, path) ==
    LET filePath == main_corrected(path)
        index == main_readFileIndex(file)
    IN  \E i \in 1..Len(index) : index[i].name = filePath

\* the sector of the first entry of the path.  The code returns c_str() of
\* a string of its local vector, which is destroyed at the return: the
\* pointer dangles (see main_deleteFile).
main_getFileSector(file, path) ==
    LET filePath == main_corrected(path)
        index == main_readFileIndex(file)
        hits == { i \in 1..Len(index) : index[i].name = filePath }
    IN  IF hits = {} THEN <<>>
        ELSE index[CHOOSE i \in hits : \A j \in hits : i <= j].sector

\* a file name read through the dangling pointer when the freed memory no
\* longer holds the sector
Garbage == <<"?">>

\* the loop of deleteFile that writes the lines of the other entries
main_writeOthers(index, filePath) ==
    LET kept == SelectSeq(index, LAMBDA line : line.name # filePath)
    IN  [i \in 1..Len(kept) |-> kept[i].name \o <<"/">> \o kept[i].sector]

\* intact: the memory behind the pointer that getFileSector returned still
\* holds the sector when sector.open reads it
main_deleteFile(file, fs, path, intact) ==
    LET filePath == main_corrected(path)
    IN  IF ~main_fileExists(file, filePath)
        THEN [err |-> main_FILE_NOT_FOUND, index |-> file, files |-> fs]
        ELSE LET opened == IF intact THEN main_getFileSector(file, filePath) ELSE Garbage
             IN  [err   |-> main_NoError,
                  index |-> main_writeOthers(main_readFileIndex(file), filePath),
                  files |-> openTrunc(fs, opened, TRUE)]

\* sectorFile.is_open() is tested before sectorFile.open() is called, so it
\* is false and the call throws after the line was appended; the open and
\* the return of the sector are never reached
main_createFile(file, fs, path, overwrite, intact) ==
    LET filePath == main_corrected(path)
        exists == main_fileExists(file, filePath)
    IN  IF exists /\ ~overwrite
        THEN [err |-> main_FILE_ALREADY_EXISTS, ret |-> <<>>, found |-> TRUE,
              index |-> file, files |-> fs]
        ELSE LET d == IF exists
                      THEN main_deleteFile(file, fs, filePath, intact)
                      ELSE [err |-> main_NoError, index |-> file, files |-> fs]
                 sector == firstEmptySector(main_readFileIndex(d.index), 0)
             IN  [err |-> main_CANNOT_OPEN_FILE, ret |-> <<>>, found |-> exists,
                  index |-> Append(d.index, filePath \o <<"/">> \o to_string(sector)),
                  files |-> d.files]

RECURSIVE main_listLoop(_, _, _, _)
main_listLoop(index, directory, recursive, acc) ==
    IF index = <<>> THEN acc
    ELSE LET line == Head(index)
             pos == find(line.name, directory)
             stripped == substr_from(line.name, pos + Len(directory))
             name == IF find(stripped, <<"/">>) # npos /\ ~recursive
                     THEN substr(stripped, 0, find(stripped, <<"/">>)) \o <<"/">>
                     ELSE stripped
         IN  IF pos = npos
             THEN main_listLoop(Tail(index), directory, recursive, acc)
             ELSE main_listLoop(Tail(index), directory, recursive,
                      IF \E i \in 1..Len(acc) : acc[i] = name THEN acc
                      ELSE Append(acc, name))

main_listDirectory(file, dir, recursive) ==
    main_listLoop(main_readFileIndex(file), main_corrected(dir), recursive, <<>>)

(***************************************************************************)
(* Inputs.                                                                 *)
(***************************************************************************)
P_a_b_txt   == <<"/", "a", "/", "b", ".", "t", "x", "t">>
P_a_c_d_txt == <<"/", "a", "/", "c", "/", "d", ".", "t", "x", "t">>
P_a_c_e     == <<"/", "a", "/", "c", "/", "e">>
P_ab        == <<"/", "a", "b">>
P_ab_rel    == <<"a", "b">>

\* the paths of the calls of Spec
Paths == {P_a_b_txt, P_a_c_d_txt, P_a_c_e, P_ab}

\* the paths of the calls of the other specifications: fewer, and one given
\* without its leading "/"
SmallPaths == {P_a_b_txt, P_a_c_d_txt, P_ab, P_ab_rel}

D_a       == <<"/", "a">>
D_a_slash == <<"/", "a", "/">>
D_a_rel   == <<"a">>
D_root    == <<"/">>

Dirs == {D_a, D_a_slash, D_a_rel, D_root}

\* the paths of the calls of SpecFaults
FaultPaths == {P_a_b_txt, P_ab}

\* the names and the sectors of the entries written to the index file and
\* read back: names with one "/", with several, ending in one and ending in
\* a digit; sectors of one and of two digits
P_a_1 == <<"/", "a", "/", "1">>

EntryNames == {P_ab, P_a_b_txt, P_a_1, D_a_slash, D_root}

EntrySectors == {<<"0">>, <<"7">>, <<"1", "0">>, <<"1", "2">>}

\* the paths of the calls that run interleaved
RacePaths == {P_ab, P_a_b_txt}

\* the paths and the directories of the calls made on both variants
VariantPaths == {P_ab, P_a_c_d_txt}

D_c == <<"/", "c">>

VariantDirs == {D_a, D_c}

\* what a caller writes into a sector file
Payload == <<"x">>

(***************************************************************************)
(* The state machine.  last is the call just made and what it returned     *)
(* (found: the outcome of the call's fileExists check).                    *)
(* live is the set of corrected paths that a successful createFile has     *)
(* created and no successful deleteFile has deleted since.                 *)
(***************************************************************************)
Call(op, path, flag, err, ret, found, names) ==
    [op |-> op, path |-> path, flag |-> flag, err |-> err, ret |-> ret,
     found |-> found, names |-> names]

\* The calls that run interleaved: procs[i] is the call that process i is
\* making or has just made.  pc is the place in the code the call has
\* reached, index the vector it holds between reading the index file and
\* writing it, calls the number of calls the process has made.
Procs == {1, 2}

Idle ==
    [pc |-> "idle", op |-> "none", path |-> <<>>, flag |-> FALSE,
     index |-> <<>>, err |-> NoError, ret |-> <<>>, calls |-> 0]

Init ==
    /\ indexFile = <<>>
    /\ files = <<>>
    /\ last = Call("initVFS", <<>>, FALSE, NoError, <<>>, FALSE, <<>>)
    /\ live = {}
    /\ procs = [i \in Procs |-> Idle]
    /\ raced = FALSE
    /\ main = [index |-> <<>>, files |-> <<>>,
               last |-> Call("initVFS", <<>>, FALSE, main_NoError, <<>>, FALSE, <<>>)]

\* The actions take the set paths of the paths a call may be given and the
\* set oks of outcomes the backing store may give to an open: {TRUE} is a store that never refuses, BOOLEAN one that may.

\* initVFS: nothing is written when the index file opens for reading; when
\* it does not, the file is opened for writing, which empties it, and the
\* call throws when that open fails too
InitVFS(oks) ==
    \E readOk \in oks, writeOk \in oks :
        /\ indexFile' = IF ~readOk /\ writeOk THEN <<>> ELSE indexFile
        /\ last' = Call("initVFS", <<>>, FALSE,
                        IF readOk \/ writeOk THEN NoError ELSE VFS_INIT_FAILED,
                        <<>>, FALSE, <<>>)
        /\ UNCHANGED <<files, live, procs, raced, main>>

CreateFile(paths, oks) ==
    \E path \in paths, overwrite \in BOOLEAN, indexOk \in oks, sectorOk \in oks :
        /\ Len(indexFile) < MaxFiles \/ fileExists(indexFile, path)
        /\ \E r \in {createFile(indexFile, files, path, overwrite, indexOk, sectorOk)} :
               /\ indexFile' = r.index
               /\ files' = r.files
               /\ last' = Call("createFile", path, overwrite, r.err, r.ret, r.found, <<>>)
               /\ live' = IF r.err = NoError THEN live \cup {corrected(path)} ELSE live
        /\ UNCHANGED <<procs, raced, main>>

DeleteFile(paths, oks) ==
    \E path \in paths, indexOk \in oks, sectorOk \in oks :
        \E r \in {deleteFile(indexFile, files, path, indexOk, sectorOk)} :
            /\ indexFile' = r.index
            /\ files' = r.files
            /\ last' = Call("deleteFile", path, FALSE, r.err, <<>>, FALSE, <<>>)
            /\ live' = IF r.err = NoError THEN live \ {corrected(path)} ELSE live
            /\ UNCHANGED <<procs, raced, main>>

FileExists(paths, oks) ==
    \E path \in paths, indexOk \in oks :
        /\ last' = Call("fileExists", path, FALSE,
                        IF indexOk THEN NoError ELSE CANNOT_OPEN_FILE(IndexPath),
                        <<>>, indexOk /\ fileExists(indexFile, path), <<>>)
        /\ UNCHANGED <<indexFile, files, live, procs, raced, main>>

GetFileSector(paths, oks) ==
    \E path \in paths, indexOk \in oks :
        /\ last' = Call("getFileSector", path, FALSE,
                        IF indexOk THEN NoError ELSE CANNOT_OPEN_FILE(IndexPath),
                        IF indexOk THEN getFileSector(indexFile, path) ELSE <<>>,
                        FALSE, <<>>)
        /\ UNCHANGED <<indexFile, files, live, procs, raced, main>>

ListDirectory(oks) ==
    \E dir \in Dirs, recursive \in BOOLEAN, indexOk \in oks :
        /\ last' = Call("listDirectory", dir, recursive,
                        IF indexOk THEN NoError ELSE CANNOT_OPEN_FILE(IndexPath),
                        <<>>, FALSE,
                        IF indexOk THEN listDirectory(indexFile, dir, recursive) ELSE <<>>)
        /\ UNCHANGED <<indexFile, files, live, procs, raced, main>>

\* the caller of createFile stores content in the sector file that
\* createFile made for a path of the index
CallerWrite(paths) ==
    \E path \in paths :
        /\ fileExists(indexFile, path)
        /\ LET name == usd \o getFileSector(indexFile, path)
           IN  /\ name \in DOMAIN files
               /\ files' = [files EXCEPT ![name] = Payload]
        /\ last' = Call("write", path, FALSE, NoError, <<>>, FALSE, <<>>)
        /\ UNCHANGED <<indexFile, live, procs, raced, main>>

\* the index file written from a vector of entries, as by the loop that
\* ends deleteFile: the vector of the previous write with one more entry.
\* last.names is the vector written.
WriteIndex ==
    \E name \in EntryNames, sector \in EntrySectors :
        /\ last.op \in {"initVFS", "writeIndex"}
        /\ Len(last.names) < MaxEntries
        /\ \E index \in {Append(last.names, lemlibFile(name, sector))} :
               /\ indexFile' = writeIndex(index)
               /\ last' = Call("writeIndex", <<>>, FALSE, NoError, <<>>, FALSE, index)
        /\ UNCHANGED <<files, live, procs, raced, main>>

\* createFile and deleteFile called one after the other on a store that
\* never refuses an open
Next ==
    \/ CreateFile(Paths, {TRUE})
    \/ DeleteFile(Paths, {TRUE})

Spec == Init /\ [][Next]_vars

\* the same with a caller that writes file content
NextStore ==
    \/ CreateFile(SmallPaths, {TRUE})
    \/ DeleteFile(SmallPaths, {TRUE})
    \/ CallerWrite(SmallPaths)

SpecStore == Init /\ [][NextStore]_vars

\* the same with the read-only operations
NextQuery ==
    \/ CreateFile(SmallPaths, {TRUE})
    \/ DeleteFile(SmallPaths, {TRUE})
    \/ FileExists(SmallPaths, {TRUE})
    \/ GetFileSector(SmallPaths, {TRUE})
    \/ ListDirectory({TRUE})

SpecQuery == Init /\ [][NextQuery]_vars

\* initVFS, createFile and deleteFile on a store that may refuse any open
NextFaults ==
    \/ InitVFS(BOOLEAN)
    \/ CreateFile(FaultPaths, BOOLEAN)
    \/ DeleteFile(FaultPaths, BOOLEAN)

SpecFaults == Init /\ [][NextFaults]_vars

(***************************************************************************)
(* createFile and deleteFile run by two processes, one step for each read  *)
(* or write of the backing store.  The results of the calls are in procs   *)
(* (last is not used); live is updated when a call returns.  raced: some   *)
(* call has begun while the call of the other process was running.         *)
(***************************************************************************)
Running(i) == procs[i].pc \notin {"idle", "done"}

Quiescent == \A i \in Procs : ~Running(i)

\* the call of process i returns (err = NoError) or throws
Return(i, err) ==
    [procs[i] EXCEPT !.pc = "done", !.err = err, !.index = <<>>,
                     !.ret = IF err = NoError THEN @ ELSE <<>>]

\* a process calls createFile or deleteFile.  createFile's open of the
\* index file for appending (line 188) changes nothing in a store that
\* holds the file and is part of this step.
Begin ==
    \E i \in Procs, op \in {"createFile", "deleteFile"}, path \in RacePaths,
       overwrite \in BOOLEAN :
        /\ ~Running(i)
        /\ procs[1].calls + procs[2].calls < MaxCalls
        /\ op = "deleteFile" => ~overwrite
        /\ procs' = [procs EXCEPT ![i] =
                        [pc |-> IF op = "createFile" THEN "c_exists" ELSE "d_exists",
                         op |-> op, path |-> path, flag |-> overwrite,
                         index |-> <<>>, err |-> NoError, ret |-> <<>>,
                         calls |-> procs[i].calls + 1]]
        /\ raced' = (raced \/ \E j \in Procs \ {i} : Running(j))
        /\ UNCHANGED <<indexFile, files, last, live, main>>

\* createFile, line 191: fileExists(corrected_path)
CreateCheck ==
    \E i \in Procs :
        /\ procs[i].pc = "c_exists"
        /\ LET corrected_path == corrected(procs[i].path)
               exists == fileExists(indexFile, corrected_path)
           IN  procs' = [procs EXCEPT ![i] =
                   IF exists /\ ~procs[i].flag
                   THEN Return(i, FILE_ALREADY_EXISTS(corrected_path))
                   ELSE [@ EXCEPT !.pc = IF exists THEN "d_exists" ELSE "c_read"]]
        /\ UNCHANGED <<indexFile, files, last, live, raced, main>>

\* deleteFile, line 164: fileExists(corrected_path); a throw inside
\* createFile's call of deleteFile ends createFile too
DeleteCheck ==
    \E i \in Procs :
        /\ procs[i].pc = "d_exists"
        /\ LET corrected_path == corrected(procs[i].path)
           IN  procs' = [procs EXCEPT ![i] =
                   IF fileExists(indexFile, corrected_path)
                   THEN [@ EXCEPT !.pc = "d_sector"]
                   ELSE Return(i, FILE_NOT_FOUND(corrected_path))]
        /\ UNCHANGED <<indexFile, files, last, live, raced, main>>

\* deleteFile, line 166: getFileSector and the open that empties the file
DeleteSector ==
    \E i \in Procs :
        /\ procs[i].pc = "d_sector"
        /\ files' = openTrunc(files, getFileSector(indexFile, corrected(procs[i].path)), TRUE)
        /\ procs' = [procs EXCEPT ![i].pc = "d_read"]
        /\ UNCHANGED <<indexFile, last, live, raced, main>>

\* deleteFile, lines 169-172: readFileIndex and the erase in the vector
DeleteRead ==
    \E i \in Procs :
        /\ procs[i].pc = "d_read"
        /\ procs' = [procs EXCEPT ![i].pc = "d_write",
                                  ![i].index = remove_if(readFileIndex(indexFile),
                                                         corrected(procs[i].path))]
        /\ UNCHANGED <<indexFile, files, last, live, raced, main>>

\* deleteFile, lines 173-175: the index file rewritten from the vector;
\* deleteFile returns, to createFile when createFile called it
DeleteWrite ==
    \E i \in Procs :
        /\ procs[i].pc = "d_write"
        /\ indexFile' = writeIndex(procs[i].index)
        /\ procs' = [procs EXCEPT ![i] =
                        IF procs[i].op = "createFile"
                        THEN [@ EXCEPT !.pc = "c_read", !.index = <<>>]
                        ELSE Return(i, NoError)]
        /\ live' = IF procs[i].op = "deleteFile"
                   THEN live \ {corrected(procs[i].path)} ELSE live
        /\ UNCHANGED <<files, last, raced, main>>

\* createFile, lines 196-200: readFileIndex and the search of the sector
CreateRead ==
    \E i \in Procs :
        /\ procs[i].pc = "c_read"
        /\ procs' = [procs EXCEPT ![i].pc = "c_append",
                                  ![i].ret = to_string(firstEmptySector(
                                                 readFileIndex(indexFile), 0))]
        /\ UNCHANGED <<indexFile, files, last, live, raced, main>>

\* createFile, line 202: the line written through the appending stream
CreateAppend ==
    \E i \in Procs :
        /\ procs[i].pc = "c_append"
        /\ indexFile' = appendLine(indexFile,
                                   indexLine(corrected(procs[i].path), procs[i].ret))
        /\ procs' = [procs EXCEPT ![i].pc = "c_sector"]
        /\ UNCHANGED <<files, last, live, raced, main>>

\* createFile, lines 205-210: the sector file created, the sector returned
CreateSector ==
    \E i \in Procs :
        /\ procs[i].pc = "c_sector"
        /\ files' = openTrunc(files, usd \o procs[i].ret, TRUE)
        /\ procs' = [procs EXCEPT ![i] = Return(i, NoError)]
        /\ live' = live \cup {corrected(procs[i].path)}
        /\ UNCHANGED <<indexFile, last, raced, main>>

NextRace ==
    \/ Begin
    \/ CreateCheck
    \/ DeleteCheck
    \/ DeleteSector
    \/ DeleteRead
    \/ DeleteWrite
    \/ CreateRead
    \/ CreateAppend
    \/ CreateSector

SpecRace == Init /\ [][NextRace]_vars

\* One call made on both variants, each on its own store.  main.index holds
\* the lines of "index.txt", main.files the other files of main.cpp's store
\* and main.last what main.cpp's call returned.
VariantCreateFile ==
    \E path \in VariantPaths, overwrite \in BOOLEAN, intact \in BOOLEAN :
        /\ Len(indexFile) < MaxFiles \/ fileExists(indexFile, path)
        /\ Len(main.index) < MaxFiles \/ main_fileExists(main.index, path)
        /\ \E r \in {createFile(indexFile, files, path, overwrite, TRUE, TRUE)},
              m \in {main_createFile(main.index, main.files, path, overwrite, intact)} :
               /\ indexFile' = r.index
               /\ files' = r.files
               /\ last' = Call("createFile", path, overwrite, r.err, r.ret, r.found, <<>>)
               /\ live' = IF r.err = NoError THEN live \cup {corrected(path)} ELSE live
               /\ main' = [index |-> m.index, files |-> m.files,
                           last |-> Call("createFile", path, overwrite, m.err, m.ret,
                                         m.found, <<>>)]
        /\ UNCHANGED <<procs, raced>>

VariantDeleteFile ==
    \E path \in VariantPaths, intact \in BOOLEAN :
        /\ \E r \in {deleteFile(indexFile, files, path, TRUE, TRUE)},
              m \in {main_deleteFile(main.index, main.files, path, intact)} :
               /\ indexFile' = r.index
               /\ files' = r.files
               /\ last' = Call("deleteFile", path, FALSE, r.err, <<>>, FALSE, <<>>)
               /\ live' = IF r.err = NoError THEN live \ {corrected(path)} ELSE live
               /\ main' = [index |-> m.index, files |-> m.files,
                           last |-> Call("deleteFile", path, FALSE, m.err, <<>>, FALSE, <<>>)]
        /\ UNCHANGED <<procs, raced>>

VariantFileExists ==
    \E path \in VariantPaths :
        /\ last' = Call("fileExists", path, FALSE, NoError, <<>>,
                        fileExists(indexFile, path), <<>>)
        /\ main' = [main EXCEPT !.last =
                        Call("fileExists", path, FALSE, main_NoError, <<>>,
                             main_fileExists(main.index, path), <<>>)]
        /\ UNCHANGED <<indexFile, files, live, procs, raced>>

VariantListDirectory ==
    \E dir \in VariantDirs, recursive \in BOOLEAN :
        /\ last' = Call("listDirectory", dir, recursive, NoError, <<>>, FALSE,
                        listDirectory(indexFile, dir, recursive))
        /\ main' = [main EXCEPT !.last =
                        Call("listDirectory", dir, recursive, main_NoError, <<>>, FALSE,
                             main_listDirectory(main.index, dir, recursive))]
        /\ UNCHANGED <<indexFile, files, live, procs, raced>>

NextVariants ==
    \/ VariantCreateFile
    \/ VariantDeleteFile
    \/ VariantFileExists
    \/ VariantListDirectory

SpecVariants == Init /\ [][NextVariants]_vars

\* vectors of entries written to the index file
NextRoundTrip == WriteIndex

SpecRoundTrip == Init /\ [][NextRoundTrip]_vars

(***************************************************************************)
(* Properties.                                                             *)
(***************************************************************************)
Entries == readFileIndex(indexFile)

Names(index) == { index[i].name : i \in 1..Len(index) }

Sectors(index) == { index[i].sector : i \in 1..Len(index) }

SectorSeq(index) == [i \in 1..Len(index) |-> index[i].sector]

\* the entries of index other than those of path p, in their order
Others(index, p) == SelectSeq(index, LAMBDA e : e.name # p)

\* the smallest non-negative integer whose decimal string is no sector of
\* index
SmallestUnused(index) ==
    CHOOSE s \in 0..Len(index) :
        /\ to_string(s) \notin Sectors(index)
        /\ \A t \in 0..(s - 1) : to_string(t) \in Sectors(index)

\* the step is a call of op that returned without an error
Succeeded(op) == last'.op = op /\ last'.err = NoError

\* C1: after any sequence of createFile and deleteFile calls from the empty
\* index, no two entries of the index have the same sectorId.
C1_SectorUniqueness ==
    \A i, j \in 1..Len(Entries) :
        i # j => Entries[i].sector # Entries[j].sector

\* C2: the sector id that a successful createFile(p) returns is the smallest
\* non-negative integer that is the sectorId of no entry of the index, the
\* entry of p itself (which an overwrite deletes) left aside.
C2_SmallestUnusedSector ==
    [][ Succeeded("createFile") =>
            last'.ret = to_string(SmallestUnused(Others(Entries, corrected(last'.path)))) ]_vars

\* C3: a createFile(p) or deleteFile(p) call leaves alone the sector file of
\* every other path q of the index: the file createFile made for q's
\* sector keeps its content.
C3_ContentIsolation ==
    [][ last'.op \in {"createFile", "deleteFile"} =>
            \A q \in Names(Entries) \ {corrected(last'.path)} :
                LET name == usd \o getFileSector(indexFile, q)
                IN  name \in DOMAIN files =>
                        name \in DOMAIN files' /\ files'[name] = files[name] ]_vars

\* C4: with the index holding /a/b.txt and /a/c/d.txt in that order,
\* listDirectory("/a", recursive=false) returns ["b.txt", "c/"] and
\* listDirectory("/a", recursive=true) returns ["b.txt", "c/d.txt"].
C4_ListingDepthControl ==
    ( /\ last.op = "listDirectory"
      /\ last.path = D_a
      /\ [i \in 1..Len(Entries) |-> Entries[i].name] = <<P_a_b_txt, P_a_c_d_txt>> )
    => last.names = IF last.flag
                    THEN << <<"b", ".", "t", "x", "t">>,
                            <<"c", "/", "d", ".", "t", "x", "t">> >>
                    ELSE << <<"b", ".", "t", "x", "t">>, <<"c", "/">> >>

\* C5: after any sequence of createFile and deleteFile calls, failed ones
\* included, no two entries of the index have the same path.
C5_PathUniqueness ==
    \A i, j \in 1..Len(Entries) :
        i # j => Entries[i].name # Entries[j].name

\* a createFile that found the path in the index, deleted it, appended the
\* new line and then failed to create the sector file
C5_Witness ==
    /\ last.op = "createFile"
    /\ last.found
    /\ last.err.kind = "CANNOT_OPEN_FILE"
    /\ last.err.arg # IndexPath
    /\ Len(indexFile) = 2

\* C6: the paths that readFileIndex returns are exactly the paths created
\* and not deleted since, each once, and fileExists is true of exactly
\* those paths.
C6_LiveSetRoundTrip ==
    /\ Names(Entries) = live
    /\ Len(Entries) = Cardinality(live)
    /\ \A p \in Paths : fileExists(indexFile, p) <=> (corrected(p) \in live)

\* a deleteFile has succeeded and other created paths remain
C6_Witness ==
    /\ last.op = "deleteFile"
    /\ last.err = NoError
    /\ Cardinality(live) = 2
    /\ Len(Entries) = 2

\* the decimal strings of 0..n-1 without k, in increasing order: the
\* sectors of the index after n files were created from the empty index and
\* the one holding sector k was deleted
AscendingWithout(n, k) ==
    [i \in 1..(n - 1) |-> to_string(IF i - 1 < k THEN i - 1 ELSE i)]

\* C7: when the index holds the sectors 0..n-1 without k in creation order,
\* createFile on a path the index does not hold returns k.
C7_SectorReuse ==
    [][ (Succeeded("createFile") /\ ~last'.found) =>
            LET sectors == SectorSeq(Entries)
                n == Len(sectors) + 1
            IN  \A k \in 0..(n - 1) :
                    sectors = AscendingWithout(n, k) => last'.ret = to_string(k) ]_vars

\* three files were created, the one holding sector 1 was deleted, and a
\* createFile on a new path has returned 1
C7_Witness ==
    /\ last.op = "createFile"
    /\ last.err = NoError
    /\ ~last.found
    /\ last.ret = <<"1">>
    /\ SectorSeq(Entries) = <<<<"0">>, <<"2">>, <<"1">>>>
    /\ <<"1">> \in DOMAIN files

\* C8: createFile(p, overwrite=true) on a path of the index succeeds; the
\* index then holds the other entries unchanged and in their order,
\* followed by the one entry of p.
C8_OverwriteSemantics ==
    [][ ( /\ last'.op = "createFile"
          /\ last'.flag
          /\ corrected(last'.path) \in Names(Entries) )
        => /\ last'.err = NoError
           /\ readFileIndex(indexFile') =
                  Append(Others(Entries, corrected(last'.path)),
                         lemlibFile(corrected(last'.path), last'.ret)) ]_vars

\* an overwriting createFile has replaced an entry that was not the last
\* line of the index
C8_Witness ==
    /\ last.op = "createFile"
    /\ last.flag
    /\ last.found
    /\ last.err = NoError
    /\ Len(Entries) = 3
    /\ Entries[3].name = corrected(last.path)

\* C9: createFile(p, overwrite=false) on a path of the index fails with
\* FILE_ALREADY_EXISTS(p) and leaves the index and every file as they were.
C9_NoOverwriteFails ==
    [][ ( /\ last'.op = "createFile"
          /\ ~last'.flag
          /\ corrected(last'.path) \in Names(Entries) )
        => /\ last'.err = FILE_ALREADY_EXISTS(corrected(last'.path))
           /\ indexFile' = indexFile
           /\ files' = files ]_vars

C9_Witness ==
    /\ last.op = "createFile"
    /\ ~last.flag
    /\ last.err.kind = "FILE_ALREADY_EXISTS"
    /\ corrected(last.path) \in Names(Entries)
    /\ files # <<>>

\* C10: deleteFile(p) on a path that is not in the index fails with
\* FILE_NOT_FOUND and leaves the index and every file as they were.
C10_DeleteAbsentFails ==
    [][ ( /\ last'.op = "deleteFile"
          /\ corrected(last'.path) \notin Names(Entries) )
        => /\ last'.err = FILE_NOT_FOUND(corrected(last'.path))
           /\ indexFile' = indexFile
           /\ files' = files ]_vars

C10_Witness ==
    /\ last.op = "deleteFile"
    /\ last.err.kind = "FILE_NOT_FOUND"
    /\ corrected(last.path) \notin Names(Entries)
    /\ Len(Entries) = 2

\* the entries of index as a set
EntrySet(index) == { index[i] : i \in 1..Len(index) }

\* C11: when createFile(p) returns the sector id s, the index holds the
\* entry (corrected p, s), getFileSector(p) is s and fileExists(p) is true;
\* a getFileSector(p) or fileExists(p) call made next returns just that.
C11_ReturnAgreesWithIndex ==
    [][ /\ Succeeded("createFile") =>
               /\ lemlibFile(corrected(last'.path), last'.ret)
                      \in EntrySet(readFileIndex(indexFile'))
               /\ getFileSector(indexFile', last'.path) = last'.ret
               /\ fileExists(indexFile', last'.path)
        /\ ( /\ last.op = "createFile"
             /\ last.err = NoError
             /\ last'.op = "getFileSector"
             /\ last'.path = last.path ) => last'.ret = last.ret
        /\ ( /\ last.op = "createFile"
             /\ last.err = NoError
             /\ last'.op = "fileExists"
             /\ last'.path = last.path ) => last'.found ]_vars

\* a createFile given a path without its leading "/" has returned sector 1
C11_Witness ==
    /\ last.op = "createFile"
    /\ last.err = NoError
    /\ last.path = P_ab_rel
    /\ last.ret = <<"1">>
    /\ Len(Entries) = 2

\* C12: getFileSector(p) signals no error; it returns the sectorId of the
\* entry of corrected p when the index holds one and the empty string
\* otherwise, so getFileSector(p) = "" exactly when fileExists(p) is false.
C12_NegativeLookup ==
    /\ \A p \in SmallPaths :
           (getFileSector(indexFile, p) = <<>>) <=> ~fileExists(indexFile, p)
    /\ last.op = "getFileSector" =>
           /\ last.err = NoError
           /\ IF corrected(last.path) \in Names(Entries)
              THEN lemlibFile(corrected(last.path), last.ret) \in EntrySet(Entries)
              ELSE last.ret = <<>>

\* getFileSector has returned the empty string for a path the index does
\* not hold while it holds two others
C12_Witness ==
    /\ last.op = "getFileSector"
    /\ last.ret = <<>>
    /\ corrected(last.path) \notin Names(Entries)
    /\ Len(Entries) = 2

\* C13: a call given a name p that does not start with "/" returns what the
\* call given "/" + p returns and leaves the index that call leaves;
\* correcting a corrected path changes nothing, and every path of the index
\* starts with "/".
C13_Normalization ==
    [][ /\ \A name \in Names(readFileIndex(indexFile')) : Head(name) = "/"
        /\ corrected(corrected(last'.path)) = corrected(last'.path)
        /\ (last'.path # <<>> /\ Head(last'.path) # "/") =>
               LET slashed == <<"/">> \o last'.path
               IN  /\ last'.op = "createFile" =>
                          LET r == createFile(indexFile, files, slashed, last'.flag, TRUE, TRUE)
                          IN  /\ last'.err = r.err
                              /\ last'.ret = r.ret
                              /\ indexFile' = r.index
                   /\ last'.op = "deleteFile" =>
                          LET r == deleteFile(indexFile, files, slashed, TRUE, TRUE)
                          IN  /\ last'.err = r.err
                              /\ indexFile' = r.index
                   /\ last'.op = "fileExists" =>
                          last'.found = fileExists(indexFile, slashed)
                   /\ last'.op = "getFileSector" =>
                          last'.ret = getFileSector(indexFile, slashed)
                   /\ last'.op = "listDirectory" =>
                          last'.names = listDirectory(indexFile, slashed, last'.flag) ]_vars

\* a createFile given ab has failed because /ab is in the index
C13_Witness ==
    /\ last.op = "createFile"
    /\ last.path = P_ab_rel
    /\ last.err = FILE_ALREADY_EXISTS(P_ab)
    /\ Len(Entries) = 2

\* C14: a successful deleteFile(p) removes the entry of corrected p from the
\* index and nothing else: the other entries keep their path, their
\* sectorId and their order.
C14_DeleteFrame ==
    [][ Succeeded("deleteFile") =>
            /\ corrected(last'.path) \in Names(Entries)
            /\ readFileIndex(indexFile') = Others(Entries, corrected(last'.path))
            /\ Len(indexFile') = Len(indexFile) - 1 ]_vars

\* a deleteFile has removed the middle one of three entries
C14_Witness ==
    /\ last.op = "deleteFile"
    /\ last.err = NoError
    /\ SectorSeq(Entries) = << <<"0">>, <<"2">> >>

\* the sector file of sector id s at the platform path of the index
PlatformSectorFile(s) == <<"/", "u", "s", "d", "/">> \o s

\* C15: the file createFile creates empty for sector s and the file
\* deleteFile truncates for an entry holding s are both "/usd/<s>", and
\* after a successful deleteFile the file createFile made for the entry
\* is empty.
C15_SectorFileIdentity ==
    [][ /\ Succeeded("createFile") =>
               /\ PlatformSectorFile(last'.ret) \in DOMAIN files'
               /\ files'[PlatformSectorFile(last'.ret)] = <<>>
        /\ Succeeded("deleteFile") =>
               LET s == getFileSector(indexFile, last'.path)
               IN  /\ PlatformSectorFile(s) \in DOMAIN files'
                   /\ files'[PlatformSectorFile(s)] = <<>>
                   /\ (usd \o s) \in DOMAIN files => files'[usd \o s] = <<>> ]_vars

\* C16: createFile appends the line of the new entry to the index before it
\* creates the sector file: when the sector file cannot be created the call
\* fails with CANNOT_OPEN_FILE of the sector file's name, the index keeps
\* the appended entry, and no file of that name was made by the call.
C16_NoRollback ==
    [][ ( /\ last'.op = "createFile"
          /\ last'.err.kind = "CANNOT_OPEN_FILE"
          /\ last'.err.arg # IndexPath )
        => \E sector \in 0..Len(indexFile) :
               /\ last'.err = CANNOT_OPEN_FILE(sectorFileName(sector))
               /\ readFileIndex(indexFile') =
                      Append(Others(Entries, corrected(last'.path)),
                             lemlibFile(corrected(last'.path), to_string(sector)))
               /\ (sectorFileName(sector) \in DOMAIN files')
                      <=> (sectorFileName(sector) \in DOMAIN files) ]_vars

\* a createFile on a new path has failed to create its sector file: the
\* last line of the index names a sector whose file does not exist
C16_Witness ==
    /\ last.op = "createFile"
    /\ ~last.found
    /\ last.err.kind = "CANNOT_OPEN_FILE"
    /\ last.err.arg # IndexPath
    /\ Len(Entries) = 1
    /\ Entries[1].name = corrected(last.path)
    /\ (usd \o Entries[1].sector) \notin DOMAIN files

\* d is a string prefix of s
IsPrefix(d, s) == Len(d) <= Len(s) /\ SubSeq(s, 1, Len(d)) = d

\* what is left of name after its first n characters, cut after its first
\* "/" when the listing is not recursive
NameUnder(name, n, recursive) ==
    LET rest == SubSeq(name, n + 1, Len(name))
        slashes == { i \in 1..Len(rest) : rest[i] = "/" }
    IN  IF slashes # {} /\ ~recursive
        THEN SubSeq(rest, 1, CHOOSE i \in slashes : \A j \in slashes : i <= j)
        ELSE rest

\* the first position of x in seq
FirstAt(seq, x) ==
    CHOOSE i \in 1..Len(seq) : seq[i] = x /\ \A j \in 1..(i - 1) : seq[j] # x

\* C18: listDirectory(dir) produces a name for exactly the entries whose
\* path has corrected dir as a string prefix, /ab under /a included; it
\* returns each produced name once, in the order in which the names are
\* first produced going through the index.
C18_ListingMatchAndDedup ==
    last.op = "listDirectory" =>
        LET d == corrected(last.path)
            matching == SelectSeq(Entries, LAMBDA e : IsPrefix(d, e.name))
            produced == [i \in 1..Len(matching) |->
                            NameUnder(matching[i].name, Len(d), last.flag)]
            r == last.names
        IN  /\ \A i, j \in 1..Len(r) : i # j => r[i] # r[j]
            /\ { r[i] : i \in 1..Len(r) } = { produced[k] : k \in 1..Len(produced) }
            /\ \A i, j \in 1..Len(r) :
                   i < j => FirstAt(produced, r[i]) < FirstAt(produced, r[j])
            /\ (d = D_a /\ P_ab \in Names(Entries)) => <<"b">> \in { r[i] : i \in 1..Len(r) }

\* listDirectory("/a") over /a/b.txt, /ab and /a/c/d.txt: the first and the
\* third entry produce the same name, which is returned once, before the
\* name of /ab
C18_Witness ==
    /\ last.op = "listDirectory"
    /\ last.path = D_a
    /\ ~last.flag
    /\ [i \in 1..Len(Entries) |-> Entries[i].name] = <<P_a_b_txt, P_ab, P_a_c_d_txt>>
    /\ last.names = << <<"/">>, <<"b">> >>

\* C19: a vector of entries whose names start with "/" and whose sectors are
\* decimal strings, written to the index file one line name + "/" + sector
\* per entry and read back with readFileIndex, comes back entry for entry.
C19_IndexRoundTrip ==
    last.op = "writeIndex" => readFileIndex(indexFile) = last.names

\* two entries were written: a name ending in a digit with a two-digit
\* sector, and the name "/"
C19_Witness ==
    /\ last.op = "writeIndex"
    /\ last.names = <<lemlibFile(P_a_1, <<"1", "0">>), lemlibFile(D_root, <<"7">>)>>
    /\ indexFile = << <<"/", "a", "/", "1", "/", "1", "0">>, <<"/", "/", "7">> >>

\* the step made a call of op on both variants
BothCalled(op) == last'.op = op /\ main'.last.op = op

\* C20: a call succeeds in main.cpp exactly when it succeeds in vfs.cpp,
\* returns the same result, and leaves the same index contents.
C20_VariantEquivalence ==
    [][ \A op \in {"createFile", "deleteFile", "fileExists", "listDirectory"} :
            BothCalled(op) =>
                /\ (main'.last.err = main_NoError) <=> (last'.err = NoError)
                /\ main'.last.ret = last'.ret
                /\ main'.last.found = last'.found
                /\ main'.last.names = last'.names
                /\ main'.index = indexFile' ]_vars

\* C17: as long as no call has begun while another was running, no update
\* is lost: whenever no call is running the index holds exactly the paths
\* created and not deleted since, each once.  (With calls interleaved the
\* loss is reachable: C17_Witness.)
C17_SerialNoLostUpdate ==
    (Quiescent /\ ~raced) =>
        /\ Names(Entries) = live
        /\ Len(Entries) = Cardinality(live)

\* createFile(p) and deleteFile(q), p # q, have run interleaved and both
\* have returned without an error, p was created and not deleted since, and
\* the index does not hold p
C17_Witness ==
    \E i, j \in Procs :
        /\ procs[i].pc = "done" /\ procs[i].op = "createFile" /\ procs[i].err = NoError
        /\ procs[j].pc = "done" /\ procs[j].op = "deleteFile" /\ procs[j].err = NoError
        /\ procs[i].path # procs[j].path
        /\ raced
        /\ corrected(procs[i].path) \in live
        /\ corrected(procs[i].path) \notin Names(Entries)

====
